---- MODULE Spec2Model ----
(***************************************************************************)
(* Model of src/src/App.tsx: the React component App of the KPPHA poster   *)
(* creator.  The state is the component's useState cells, the DOM nodes    *)
(* the handlers create, and the asynchronous work in flight (FileReader    *)
(* reads, canvas.toBlob encodes, downloadPoster activations).  Every       *)
(* action is one run-to-completion step of the browser's event loop: an    *)
(* event handler, or the continuation of an async function after an await. *)
(***************************************************************************)
EXTENDS Integers, FiniteSets, Sequences, TLC

VARIABLES
    imgSrc,           \* useState('')           App.tsx:65
    croppedImageUrl,  \* useState('')           App.tsx:66
    crop,             \* useState<Crop>()       App.tsx:67
    completedCrop,    \* useState<PixelCrop>()  App.tsx:68
    name,             \* useState('')           App.tsx:69
    isCropping,       \* useState(false)        App.tsx:70
    isDownloading,    \* useState(false)        App.tsx:71
    imgLoading,       \* the crop <img> (App.tsx:216) has not fired onLoad yet
    readers,          \* FileReader reads in flight, per file (App.tsx:77-83)
    cropTasks,        \* getCroppedImg toBlob encodes in flight (App.tsx:49-61)
    exports,          \* downloadPoster runs not yet ended (App.tsx:113-183)
    containers,       \* off-screen containers attached to document.body
    effects           \* what the last step let out: console.error, alert,
                      \* file download, uncaught error

uiVars == <<imgSrc, croppedImageUrl, crop, completedCrop, name, isCropping,
            isDownloading>>
vars == <<imgSrc, croppedImageUrl, crop, completedCrop, name, isCropping,
          isDownloading, imgLoading, readers, cropTasks, exports, containers,
          effects>>

----------------------------------------------------------------------------
(* Bounds of the model *)

MaxReaders == 2      \* FileReader reads in flight at once
MaxCropTasks == 1    \* crop encodes (canvas.toBlob) in flight at once
MaxExports == 2      \* exports in progress, or ended with their container
                     \* still attached, at once

Files == {"A", "B"}           \* files the user can pick
Names == {"", "Ada"}          \* texts the user can type in the name field

----------------------------------------------------------------------------
(* Values *)

\* the value of a useState<Crop>() cell that was never set, or set to undefined
undefined == [unit |-> "undefined"]

\* reader.result of readAsDataURL for file f: a non-empty data URL
DataUrl(f) == "data:" \o f

\* rendered size of the crop <img> (e.currentTarget), the same for the two
\* files of the model
Displayed(src) == [width |-> 400, height |-> 200]

\* crops ReactCrop can report from a drag
PercentCrops == {[unit |-> "%", x |-> 0, y |-> 0, width |-> 100, height |-> 100]}
PixelCrops == {[unit |-> "px", x |-> 20, y |-> 20, width |-> 100, height |-> 100]}

\* centerCrop(makeAspectCrop({unit:'%', width:90}, 1, w, h), w, h)
centerAspectCrop(mediaWidth, mediaHeight) ==
    LET w0 == (90 * mediaWidth) \div 100
        h0 == w0                          \* aspect 1
        h1 == IF h0 > mediaHeight THEN mediaHeight ELSE h0
        w1 == IF h0 > mediaHeight THEN mediaHeight ELSE w0
    IN  [unit |-> "%",
         x |-> (((mediaWidth - w1) * 100) \div mediaWidth) \div 2,
         y |-> (((mediaHeight - h1) * 100) \div mediaHeight) \div 2,
         width |-> (w1 * 100) \div mediaWidth,
         height |-> (h1 * 100) \div mediaHeight]

\* URL.createObjectURL(blob) for the JPEG of region c of image: the URL
\* stands for the blob's content
BlobUrl(image, c) ==
    "blob:" \o image \o "@" \o ToString(c.x) \o "," \o ToString(c.y) \o "+"
            \o ToString(c.width) \o "x" \o ToString(c.height)

\* variant: the caption is the name text, with no placeholder
CaptionNameOnly(n) == n

\* {name || 'Your Name Here'}
Caption(n) == IF n = "" THEN "Your Name Here" ELSE n

\* src={croppedImageUrl || imgSrc}
ChosenImage(cropped, src) == IF cropped # "" THEN cropped ELSE src

\* the <img> elements of the poster subtree
PosterImages == {"background", "user"}

\* effects of a step
ConsoleError(msg) == [kind |-> "console.error", text |-> msg]
Alert == [kind |-> "alert", text |-> "Failed to generate poster. Please try again."]
Download == [kind |-> "download", text |-> "KPPHA-poster.png"]
Uncaught(msg) == [kind |-> "uncaught", text |-> msg]

RemoveAt(s, i) == SubSeq(s, 1, i - 1) \o SubSeq(s, i + 1, Len(s))

----------------------------------------------------------------------------
(* What is rendered: the conditional blocks of the JSX *)

\* {!imgSrc && ( <input type="file" .../> )}
FileInputMounted == imgSrc = ""

\* {isCropping && imgSrc && ( <ReactCrop> <img ref={imgRef}/> ... )}
CropperMounted == isCropping /\ imgSrc # ""

\* {!isCropping && imgSrc && ( name input, poster (posterRef), buttons )}
PosterMounted == ~isCropping /\ imgSrc # ""

\* PosterState: the caption text and the chosen image
PosterState == [caption |-> name,
                image |-> ChosenImage(croppedImageUrl, imgSrc)]

\* the poster subtree rendered from a PosterState: the caption <p> and the
\* user <img>
Compose(ps) == [caption |-> Caption(ps.caption), userImg |-> ps.image]

\* the DOM subtree under posterRef.current
PosterDom == Compose(PosterState)

\* no DOM subtree, no canvas
NoDom == [caption |-> "", userImg |-> ""]

ReadersInFlight == readers["A"] + readers["B"]

----------------------------------------------------------------------------
Init ==
    /\ imgSrc = ""
    /\ croppedImageUrl = ""
    /\ crop = undefined
    /\ completedCrop = undefined
    /\ name = ""
    /\ isCropping = FALSE
    /\ isDownloading = FALSE
    /\ imgLoading = FALSE
    /\ readers = [f \in Files |-> 0]
    /\ cropTasks = <<>>
    /\ exports = <<>>
    /\ containers = 0
    /\ effects = {}

----------------------------------------------------------------------------
(* Image Loader *)

\* onSelectFile with no chosen file (the picker was cancelled): the
\* condition on e.target.files fails and the handler returns
onSelectFileNone ==
    /\ FileInputMounted
    /\ effects' = {}
    /\ UNCHANGED <<uiVars, imgLoading, readers, cropTasks, exports, containers>>

\* onSelectFile with a chosen file: start a FileReader
onSelectFile(f) ==
    /\ FileInputMounted
    /\ ReadersInFlight < MaxReaders
    /\ readers' = [readers EXCEPT ![f] = @ + 1]
    /\ effects' = {}
    /\ UNCHANGED <<uiVars, imgLoading, cropTasks, exports, containers>>

\* variant: the load listener leaves croppedImageUrl as it is
ReaderLoadKeepsCrop(f) ==
    /\ readers[f] > 0
    /\ readers' = [readers EXCEPT ![f] = @ - 1]
    /\ imgSrc' = DataUrl(f)
    /\ isCropping' = TRUE
    /\ imgLoading' = IF CropperMounted /\ imgSrc = DataUrl(f) THEN imgLoading
                                                              ELSE TRUE
    /\ effects' = {}
    /\ UNCHANGED <<croppedImageUrl, crop, completedCrop, name, isDownloading,
                   cropTasks, exports, containers>>

\* the reader's 'load' listener
ReaderLoad(f) ==
    /\ readers[f] > 0
    /\ readers' = [readers EXCEPT ![f] = @ - 1]
    /\ imgSrc' = DataUrl(f)
    /\ croppedImageUrl' = ""
    /\ isCropping' = TRUE
    /\ imgLoading' = IF CropperMounted /\ imgSrc = DataUrl(f) THEN imgLoading
                                                              ELSE TRUE
    /\ effects' = {}
    /\ UNCHANGED <<crop, completedCrop, name, isDownloading, cropTasks,
                   exports, containers>>

\* the read fails: no 'error' listener is registered, nothing happens
ReaderError(f) ==
    /\ readers[f] > 0
    /\ readers' = [readers EXCEPT ![f] = @ - 1]
    /\ effects' = {}
    /\ UNCHANGED <<uiVars, imgLoading, cropTasks, exports, containers>>

----------------------------------------------------------------------------
(* Crop Selector *)

onImageLoad ==
    /\ CropperMounted
    /\ imgLoading
    /\ imgLoading' = FALSE
    /\ crop' = centerAspectCrop(Displayed(imgSrc).width, Displayed(imgSrc).height)
    /\ effects' = {}
    /\ UNCHANGED <<imgSrc, croppedImageUrl, completedCrop, name, isCropping,
                   isDownloading, readers, cropTasks, exports, containers>>

\* onChange={(_, percentCrop) => setCrop(percentCrop)}
onCropChange(c) ==
    /\ CropperMounted
    /\ ~imgLoading
    /\ crop' = c
    /\ effects' = {}
    /\ UNCHANGED <<imgSrc, croppedImageUrl, completedCrop, name, isCropping,
                   isDownloading, imgLoading, readers, cropTasks, exports,
                   containers>>

\* variant: finishing a drag applies the crop without Crop & Apply
onCropCompleteApplies(c) ==
    /\ CropperMounted
    /\ ~imgLoading
    /\ completedCrop' = c
    /\ isCropping' = FALSE
    /\ imgLoading' = FALSE
    /\ effects' = {}
    /\ UNCHANGED <<imgSrc, croppedImageUrl, crop, name, isDownloading,
                   readers, cropTasks, exports, containers>>

\* onComplete={(c) => setCompletedCrop(c)}
onCropComplete(c) ==
    /\ CropperMounted
    /\ ~imgLoading
    /\ completedCrop' = c
    /\ effects' = {}
    /\ UNCHANGED <<imgSrc, croppedImageUrl, crop, name, isCropping,
                   isDownloading, imgLoading, readers, cropTasks, exports,
                   containers>>

----------------------------------------------------------------------------
(* Crop Rasterizer *)

\* variant: Crop & Apply with no completed crop leaves cropping mode
handleCropCompleteNoCropApplies ==
    /\ CropperMounted
    /\ completedCrop = undefined
    /\ isCropping' = FALSE
    /\ imgLoading' = FALSE
    /\ effects' = {}
    /\ UNCHANGED <<imgSrc, croppedImageUrl, crop, completedCrop, name,
                   isDownloading, readers, cropTasks, exports, containers>>

\* handleCropComplete with no completed crop: the condition
\* completedCrop && imgRef.current fails and the handler returns
handleCropCompleteNoCrop ==
    /\ CropperMounted                     \* the Crop & Apply button is rendered
    /\ completedCrop = undefined
    /\ effects' = {}
    /\ UNCHANGED <<uiVars, imgLoading, readers, cropTasks, exports, containers>>

\* handleCropComplete -> getCroppedImg: getContext('2d') returns null, the
\* throw is caught by handleCropComplete's catch
handleCropCompleteNoContext ==
    /\ CropperMounted                     \* the Crop & Apply button is rendered
    /\ completedCrop # undefined          \* completedCrop && imgRef.current
    /\ effects' = {ConsoleError("Error cropping image:")}
    /\ UNCHANGED <<uiVars, imgLoading, readers, cropTasks, exports, containers>>

\* handleCropComplete -> getCroppedImg: the region of the mounted image is
\* drawn on the canvas, canvas.toBlob is pending, the handler is suspended
handleCropCompleteDraw ==
    /\ CropperMounted
    /\ completedCrop # undefined
    /\ Len(cropTasks) < MaxCropTasks
    /\ cropTasks' = Append(cropTasks, [image |-> imgSrc, crop |-> completedCrop])
    /\ effects' = {}
    /\ UNCHANGED <<uiVars, imgLoading, readers, exports, containers>>

\* variant: the cropped result replaces the uploaded image
CropBlobReadyInPlace(i) ==
    /\ i \in DOMAIN cropTasks
    /\ cropTasks' = RemoveAt(cropTasks, i)
    /\ imgSrc' = BlobUrl(cropTasks[i].image, cropTasks[i].crop)
    /\ croppedImageUrl' = imgSrc'
    /\ isCropping' = FALSE
    /\ imgLoading' = FALSE
    /\ effects' = {}
    /\ UNCHANGED <<crop, completedCrop, name, isDownloading, readers,
                   exports, containers>>

\* toBlob calls back with a blob: resolve(URL.createObjectURL(blob)), then
\* the handler resumes: setCroppedImageUrl, setIsCropping(false)
CropBlobReady(i) ==
    /\ i \in DOMAIN cropTasks
    /\ cropTasks' = RemoveAt(cropTasks, i)
    /\ croppedImageUrl' = BlobUrl(cropTasks[i].image, cropTasks[i].crop)
    /\ isCropping' = FALSE
    /\ imgLoading' = FALSE                \* the crop <img> is unmounted
    /\ effects' = {}
    /\ UNCHANGED <<imgSrc, crop, completedCrop, name, isDownloading, readers,
                   exports, containers>>

\* variant: setIsCropping(false) runs whether or not the encode succeeded
CropBlobEmptyLeavesCropper(i) ==
    /\ i \in DOMAIN cropTasks
    /\ cropTasks' = RemoveAt(cropTasks, i)
    /\ isCropping' = FALSE
    /\ imgLoading' = FALSE
    /\ effects' = {ConsoleError("Error cropping image:")}
    /\ UNCHANGED <<imgSrc, croppedImageUrl, crop, completedCrop, name,
                   isDownloading, readers, exports, containers>>

\* toBlob calls back with null: reject(new Error('Canvas is empty')), caught
CropBlobEmpty(i) ==
    /\ i \in DOMAIN cropTasks
    /\ cropTasks' = RemoveAt(cropTasks, i)
    /\ effects' = {ConsoleError("Error cropping image:")}
    /\ UNCHANGED <<uiVars, imgLoading, readers, exports, containers>>

----------------------------------------------------------------------------
(* Composer controls *)

handleReset ==
    /\ PosterMounted                      \* the Reset button is rendered
    /\ imgSrc' = ""
    /\ croppedImageUrl' = ""
    /\ name' = ""
    /\ crop' = undefined
    /\ completedCrop' = undefined
    /\ isCropping' = FALSE
    /\ effects' = {}
    /\ UNCHANGED <<isDownloading, imgLoading, readers, cropTasks, exports,
                   containers>>

\* onChange={(e) => setName(e.target.value)}
setName(n) ==
    /\ PosterMounted
    /\ n # name
    /\ name' = n
    /\ effects' = {}
    /\ UNCHANGED <<imgSrc, croppedImageUrl, crop, completedCrop, isCropping,
                   isDownloading, imgLoading, readers, cropTasks, exports,
                   containers>>

----------------------------------------------------------------------------
(* Poster Exporter: downloadPoster *)

AtPc(i, p) == i \in DOMAIN exports /\ exports[i].pc = p

\* variant: the raster is taken of the live poster, not of the clone
html2canvasLive(i) == PosterDom

\* html2canvas(container, ...): the raster of the off-screen container of
\* export i, which holds the clone
html2canvas(i) == exports[i].clone

\* the exports past downloadPoster's finally whose toBlob callback is pending
Encoding == Cardinality({i \in DOMAIN exports : exports[i].pc = "toBlob"})

\* click on the Download button: lines 114-142, up to the await
downloadPoster ==
    /\ PosterMounted                      \* button rendered, posterRef.current set
    /\ ~isDownloading                     \* disabled={isDownloading}
    /\ Encoding + containers < MaxExports
    /\ isDownloading' = TRUE
    /\ containers' = containers + 1       \* document.body.appendChild(container)
    /\ \E pending \in SUBSET PosterImages :      \* the images with !img.complete
         exports' = Append(exports,
                        [pc |-> "awaitImages",
                         clone |-> PosterDom,      \* posterRef.current.cloneNode(true)
                         canvas |-> NoDom,
                         loading |-> pending,
                         invoked |-> PosterState])
    /\ effects' = {}
    /\ UNCHANGED <<imgSrc, croppedImageUrl, crop, completedCrop, name,
                   isCropping, imgLoading, readers, cropTasks>>

\* img.onload = resolve
CloneImageLoad(i, img) ==
    /\ AtPc(i, "awaitImages")
    /\ img \in exports[i].loading
    /\ exports' = [exports EXCEPT ![i].loading = @ \ {img}]
    /\ effects' = {}
    /\ UNCHANGED <<uiVars, imgLoading, readers, cropTasks, containers>>

\* variant: the error listener does not resolve the promise of the image
CloneImageErrorUnresolved(i, img) ==
    /\ AtPc(i, "awaitImages")
    /\ img \in exports[i].loading
    /\ exports' = [exports EXCEPT ![i].loading = (@ \ {img}) \cup {"unresolved"}]
    /\ effects' = {}
    /\ UNCHANGED <<uiVars, imgLoading, readers, cropTasks, containers>>

\* img.onerror = resolve
CloneImageError(i, img) ==
    /\ AtPc(i, "awaitImages")
    /\ img \in exports[i].loading
    /\ exports' = [exports EXCEPT ![i].loading = @ \ {img}]
    /\ effects' = {}
    /\ UNCHANGED <<uiVars, imgLoading, readers, cropTasks, containers>>

\* variant: html2canvas is called without awaiting the image promises
StartRasterNoWait(i) ==
    /\ AtPc(i, "awaitImages")
    /\ exports' = [exports EXCEPT ![i].pc = "html2canvas"]
    /\ effects' = {}
    /\ UNCHANGED <<uiVars, imgLoading, readers, cropTasks, containers>>

\* Promise.all resolved: html2canvas(container, ...) is called and awaited
StartRaster(i) ==
    /\ AtPc(i, "awaitImages")
    /\ exports[i].loading = {}
    /\ exports' = [exports EXCEPT ![i].pc = "html2canvas"]
    /\ effects' = {}
    /\ UNCHANGED <<uiVars, imgLoading, readers, cropTasks, containers>>

\* html2canvas resolves: removeChild(container), canvas.toBlob(cb) is
\* registered, and the finally block runs
RasterDone(i) ==
    /\ AtPc(i, "html2canvas")
    /\ exports' = [exports EXCEPT ![i].pc = "toBlob",
                                  ![i].canvas = html2canvas(i),
                                  ![i].clone = NoDom]
    /\ containers' = containers - 1
    /\ isDownloading' = FALSE
    /\ effects' = {}
    /\ UNCHANGED <<imgSrc, croppedImageUrl, crop, completedCrop, name,
                   isCropping, imgLoading, readers, cropTasks>>

\* variant: the busy flag is cleared in the try block only
RasterFailKeepsBusy(i) ==
    /\ AtPc(i, "html2canvas")
    /\ exports' = RemoveAt(exports, i)
    /\ effects' = {ConsoleError("Download failed:"), Alert}
    /\ UNCHANGED <<uiVars, imgLoading, readers, cropTasks, containers>>

\* html2canvas rejects: catch (console.error, alert), then finally
RasterFail(i) ==
    /\ AtPc(i, "html2canvas")
    /\ exports' = RemoveAt(exports, i)
    /\ effects' = {ConsoleError("Download failed:"), Alert}
    /\ isDownloading' = FALSE
    /\ UNCHANGED <<imgSrc, croppedImageUrl, crop, completedCrop, name,
                   isCropping, imgLoading, readers, cropTasks, containers>>

\* the toBlob callback with the PNG blob of the canvas: link.download,
\* link.click()
ExportBlobReady(i) ==
    /\ AtPc(i, "toBlob")
    /\ exports' = RemoveAt(exports, i)
    /\ effects' = {Download}
    /\ UNCHANGED <<uiVars, imgLoading, readers, cropTasks, containers>>

\* the toBlob callback with null: the throw happens in the callback, after
\* downloadPoster's try/catch/finally has completed, and nothing catches it
ExportBlobNull(i) ==
    /\ AtPc(i, "toBlob")
    /\ exports' = RemoveAt(exports, i)
    /\ effects' = {Uncaught("Canvas to Blob conversion failed")}
    /\ UNCHANGED <<uiVars, imgLoading, readers, cropTasks, containers>>

----------------------------------------------------------------------------
Next ==
    \/ onSelectFileNone
    \/ \E f \in Files : onSelectFile(f)
    \/ \E f \in Files : ReaderLoad(f)
    \/ \E f \in Files : ReaderError(f)
    \/ onImageLoad
    \/ \E c \in PercentCrops : onCropChange(c)
    \/ \E c \in PixelCrops : onCropComplete(c)
    \/ handleCropCompleteNoCrop
    \/ handleCropCompleteNoContext
    \/ handleCropCompleteDraw
    \/ \E i \in DOMAIN cropTasks : CropBlobReady(i)
    \/ \E i \in DOMAIN cropTasks : CropBlobEmpty(i)
    \/ handleReset
    \/ \E n \in Names : setName(n)
    \/ downloadPoster
    \/ \E i \in DOMAIN exports, img \in PosterImages : CloneImageLoad(i, img)
    \/ \E i \in DOMAIN exports, img \in PosterImages : CloneImageError(i, img)
    \/ \E i \in DOMAIN exports : StartRaster(i)
    \/ \E i \in DOMAIN exports : RasterDone(i)
    \/ \E i \in DOMAIN exports : RasterFail(i)
    \/ \E i \in DOMAIN exports : ExportBlobReady(i)
    \/ \E i \in DOMAIN exports : ExportBlobNull(i)

Spec == Init /\ [][Next]_vars

----------------------------------------------------------------------------
(* Vocabulary of the properties *)

\* the UI mode shown by the conditional blocks and the Download button
Mode ==
    CASE imgSrc = "" -> "empty"
      [] imgSrc # "" /\ isCropping -> "cropping"
      [] imgSrc # "" /\ ~isCropping /\ isDownloading -> "exporting"
      [] OTHER -> "composing"

\* export i is inside the body of downloadPoster (before its finally ran)
Running(i) == exports[i].pc \in {"awaitImages", "html2canvas"}

RunningExports == {i \in DOMAIN exports : Running(i)}

\* the step ends export i
Ends(i) == i \in DOMAIN exports /\ exports' = RemoveAt(exports, i)

CropErrorLogged(fx) == ConsoleError("Error cropping image:") \in fx

----------------------------------------------------------------------------
(* Poster Exporter *)

\* C1: at no time are two exports in progress at once (an export is in
\* progress from the download trigger until its file is handed to the
\* browser or its failure has surfaced), so two triggers give one file.
C1_OneExportInProgress == Len(exports) <= 1

\* C2: while any step of an export is pending, the PNG encode and the
\* download click included, isDownloading is true.
C2_BusyForWholeExport == (exports # <<>>) => isDownloading

\* C3: when an export fails, at the rasterization or because the encode
\* yields no blob, the user gets an alert, no download is triggered, and
\* isDownloading is false once no other export is running.
C3_FailureAlerts ==
    [][\A i \in DOMAIN exports :
          (Ends(i) /\ (exports[i].pc = "html2canvas"
                         \/ Uncaught("Canvas to Blob conversion failed") \in effects'))
            => /\ Alert \in effects'
               /\ Download \notin effects'
               /\ (\A j \in DOMAIN exports' : ~Running(j)') => ~isDownloading']_vars

\* C4: an export that is past its rasterization, or has ended, has no
\* off-screen container attached: the attached containers are those of the
\* exports still inside downloadPoster, and none when no export is in progress.
C4_ContainersReleased == containers = Cardinality(RunningExports)

\* C5: isDownloading is true only while an export is running inside
\* downloadPoster: every exit path has cleared it.
C5_BusyOnlyWhileRunning == isDownloading => RunningExports # {}

C5_Witness ==
    /\ Alert \in effects
    /\ exports = <<>>
    /\ ~isDownloading

\* C6: the canvas an export hands to toBlob, whose PNG is the file, is the
\* composition of the PosterState captured when the download was
\* triggered, and so is the clone it rasterizes, whatever has been typed or
\* reset since.
C6_SnapshotExport ==
    \A i \in DOMAIN exports :
       IF Running(i) THEN exports[i].clone = Compose(exports[i].invoked)
                     ELSE exports[i].canvas = Compose(exports[i].invoked)

\* a canvas is being encoded that differs from the poster now shown
C6_Witness ==
    \E i \in DOMAIN exports :
       /\ exports[i].pc = "toBlob"
       /\ PosterMounted
       /\ exports[i].canvas # PosterDom

----------------------------------------------------------------------------
(* Reset and the UI modes *)

\* C7: after handleReset the state is that of initial load, isDownloading
\* included.
C7_ResetIsInitial ==
    [][(PosterMounted /\ imgSrc' = "")
          => /\ croppedImageUrl' = "" /\ name' = ""
             /\ crop' = undefined /\ completedCrop' = undefined
             /\ ~isCropping' /\ ~isDownloading']_vars

AllowedModeChanges ==
    {<<"empty", "cropping">>, <<"cropping", "composing">>,
     <<"composing", "exporting">>, <<"exporting", "composing">>,
     <<"cropping", "empty">>, <<"composing", "empty">>, <<"exporting", "empty">>}

\* C8: the mode changes only along empty -> cropping -> composing ->
\* exporting -> composing, and from any mode to empty.
C8_ModeTransitions ==
    [][Mode' # Mode => <<Mode, Mode'>> \in AllowedModeChanges]_vars

----------------------------------------------------------------------------
(* Crop *)

\* C9: a crop attempt that fails (no 2d context, empty encode) logs the
\* error and changes none of imgSrc, croppedImageUrl, isCropping, crop,
\* completedCrop, name; every encode that completes is either such a logged
\* failure or an applied crop.
C9_FailedCropIsNoOp ==
    [][/\ CropErrorLogged(effects')
            => UNCHANGED <<imgSrc, croppedImageUrl, isCropping, crop,
                           completedCrop, name>>
       /\ Len(cropTasks') < Len(cropTasks)
            => (CropErrorLogged(effects') \/ (croppedImageUrl' # "" /\ ~isCropping'))]_vars

C9_Witness ==
    /\ CropErrorLogged(effects)
    /\ CropperMounted
    /\ completedCrop # undefined
    /\ croppedImageUrl = ""

\* C10: in cropping mode a change of crop or completedCrop leaves
\* croppedImageUrl and isCropping alone; cropping mode is left only by a
\* crop encode that completed and set croppedImageUrl to its blob; and in
\* cropping mode the chosen image is imgSrc.
C10_NoAutomaticCrop ==
    [][/\ (CropperMounted /\ (crop' # crop \/ completedCrop' # completedCrop))
            => (croppedImageUrl' = croppedImageUrl /\ isCropping' = isCropping)
       /\ (CropperMounted /\ ~CropperMounted')
            => \E i \in DOMAIN cropTasks :
                  /\ cropTasks' = RemoveAt(cropTasks, i)
                  /\ croppedImageUrl' = BlobUrl(cropTasks[i].image, cropTasks[i].crop)
       /\ CropperMounted'
            => ChosenImage(croppedImageUrl', imgSrc') = imgSrc']_vars

C10_Witness ==
    /\ PosterMounted
    /\ croppedImageUrl # ""
    /\ completedCrop # undefined

----------------------------------------------------------------------------
(* Image wait of the exporter *)

\* C11: an export whose rasterization (html2canvas) has started holds no
\* image that is still loading: every image of the clone was complete, or
\* has fired load or error.
C11_RasterAfterImages ==
    \A i \in DOMAIN exports :
       exports[i].pc = "html2canvas" => exports[i].loading = {}

C11_Witness ==
    \E i \in DOMAIN exports :
       exports[i].pc = "html2canvas" /\ exports[i].loading = {}

----------------------------------------------------------------------------
(* Termination of the exporter *)

\* some image of a clone fires load or error
ImageSettles ==
    \E i \in DOMAIN exports : \E img \in PosterImages :
       CloneImageLoad(i, img) \/ CloneImageError(i, img)

\* the continuation of await Promise.all runs
ImagesAwaited == \E i \in DOMAIN exports : StartRaster(i)

\* html2canvas settles: imageTimeout 0 leaves it to the load and error
\* events of the images, which the browser always delivers
RasterSettles == \E i \in DOMAIN exports : RasterDone(i) \/ RasterFail(i)

\* the callback of canvas.toBlob is called
BlobCallback == \E i \in DOMAIN exports : ExportBlobReady(i) \/ ExportBlobNull(i)

\* the program under the scheduling of the browser: an event that is due
\* and a continuation that is ready are eventually run
LiveSpec ==
    /\ Spec
    /\ WF_vars(ImageSettles)
    /\ WF_vars(ImagesAwaited)
    /\ WF_vars(RasterSettles)
    /\ WF_vars(BlobCallback)

\* an export came to its end in the last step: a file was handed over, the
\* failure was alerted, or the callback threw
ExportEnded == Download \in effects \/ Alert \in effects
               \/ (\E fx \in effects : fx.kind = "uncaught")

----------------------------------------------------------------------------
(* Source of the crops *)

\* the results of FileReader.readAsDataURL
FileReadResults == {DataUrl(f) : f \in Files}

\* C13: imgSrc is empty or the result of a file read, never a cropped
\* result, and every crop rasterization samples an image that is the result
\* of a file read.
C13_CropsSampleOriginal ==
    /\ imgSrc \in {""} \cup FileReadResults
    /\ \A i \in DOMAIN cropTasks : cropTasks[i].image \in FileReadResults

\* a crop of the uploaded image is being rasterized
C13_Witness ==
    /\ cropTasks # <<>>
    /\ cropTasks[1].image = imgSrc
    /\ imgSrc \in FileReadResults

----------------------------------------------------------------------------
(* Frame of onSelectFile *)

\* C14: onSelectFile with no chosen file changes no state; with a file it
\* only starts the read, and when the read succeeds imgSrc is the data URL
\* of the file, croppedImageUrl is empty and isCropping is true, name and
\* isDownloading being left as they were.  A read that fails changes nothing.
C14_SelectFileFrame ==
    [][/\ (FileInputMounted /\ UNCHANGED <<readers, cropTasks, exports>>)
            => UNCHANGED <<uiVars, imgLoading, containers>>
       /\ \A f \in Files :
            /\ readers'[f] > readers[f] => UNCHANGED uiVars
            /\ readers'[f] < readers[f] =>
                  \/ UNCHANGED uiVars
                  \/ /\ imgSrc' = DataUrl(f)
                     /\ croppedImageUrl' = ""
                     /\ isCropping'
                     /\ name' = name
                     /\ isDownloading' = isDownloading]_vars

\* a read has succeeded after a name was typed and an export was started:
\* both are kept, the crop is cleared
C14_Witness ==
    /\ CropperMounted
    /\ imgLoading
    /\ croppedImageUrl = ""
    /\ name = "Ada"
    /\ isDownloading

----------------------------------------------------------------------------
(* Combinations of the flags *)

\* C15: while isDownloading is true an image is loaded and the UI is not
\* in cropping mode.
C15_BusyOnlyComposing == isDownloading => (imgSrc # "" /\ ~isCropping)

----------------------------------------------------------------------------
(* Caption of the poster *)

\* C17: the caption of the rendered poster is "Your Name Here" when name is
\* empty and is the text of name otherwise; the same holds of every exported
\* canvas with respect to the name at the download click.
C17_CaptionOrPlaceholder ==
    /\ PosterMounted =>
          /\ name = "" => PosterDom.caption = "Your Name Here"
          /\ name # "" => PosterDom.caption = name
    /\ \A i \in DOMAIN exports :
          exports[i].pc = "toBlob" =>
             /\ exports[i].invoked.caption = ""
                   => exports[i].canvas.caption = "Your Name Here"
             /\ exports[i].invoked.caption # ""
                   => exports[i].canvas.caption = exports[i].invoked.caption

\* the poster shows a typed name, and a canvas rendered with no name typed
\* carries the placeholder
C17_Witness ==
    /\ PosterMounted
    /\ name = "Ada"
    /\ PosterDom.caption = "Ada"
    /\ \E i \in DOMAIN exports :
          exports[i].pc = "toBlob" /\ exports[i].canvas.caption = "Your Name Here"

----------------------------------------------------------------------------
(* Crop and image *)

\* C18: a non-empty croppedImageUrl is a crop of the image that imgSrc
\* holds now: imgSrc is not empty and has not been replaced since the crop
\* was rasterized.
C18_CropOfCurrentImage ==
    croppedImageUrl # "" =>
       /\ imgSrc # ""
       /\ \E c \in PixelCrops : croppedImageUrl = BlobUrl(imgSrc, c)

----------------------------------------------------------------------------
(* Crop & Apply with no completed crop *)

\* C19: in cropping mode with completedCrop undefined no step starts a crop
\* rasterization, no step other than the end of an earlier rasterization
\* logs a crop error, and a click on Crop & Apply (the one step there that
\* is not an event of the cropper, of a reader, of a rasterization or of an
\* export) leaves every state cell as it is: cropping mode is kept and
\* croppedImageUrl stays empty.
C19_NoCropNoEffect ==
    [][(CropperMounted /\ completedCrop = undefined) =>
          /\ Len(cropTasks') <= Len(cropTasks)
          /\ cropTasks' = cropTasks => ~CropErrorLogged(effects')
          /\ UNCHANGED <<crop, completedCrop, imgLoading, readers, cropTasks,
                         exports>>
                => (UNCHANGED <<uiVars, containers>> /\ isCropping'
                    /\ croppedImageUrl' = "")]_vars

\* Crop & Apply can be clicked with no completed crop: the crop image has
\* loaded and no drag has ended
C19_Witness ==
    /\ CropperMounted
    /\ ~imgLoading
    /\ completedCrop = undefined
    /\ crop # undefined
    /\ effects = {}

----------------------------------------------------------------------------
(* getCroppedImg: the arithmetic of the sampled region *)

\* JavaScript numbers are IEEE 754 doubles: 53 significant bits, results
\* rounded to nearest, ties to even.  A double is held as its significand,
\* a sequence of Precision bits whose first is 1, and the exponent of its
\* last bit; Zero has the empty significand.
Precision == 53

MaxNaturalSize == 16      \* naturalWidth, naturalHeight of an image
MaxDisplayedSize == 12    \* width, height of the image as displayed

Zero == [sig |-> <<>>, exp |-> 0]

Zeros(n) == [i \in 1..n |-> 0]

\* the binary digits of a natural number, first the most significant
RECURSIVE IntBits(_)
IntBits(n) == IF n = 0 THEN <<>> ELSE Append(IntBits(n \div 2), n % 2)

\* binary digits without their leading zeros
Strip(b) ==
    IF \A i \in DOMAIN b : b[i] = 0 THEN <<>>
    ELSE LET j == CHOOSE i \in DOMAIN b :
                      b[i] = 1 /\ \A k \in 1..(i - 1) : b[k] = 0
         IN  SubSeq(b, j, Len(b))

\* b + 1 on binary digits
IncBits(b) ==
    IF \A i \in DOMAIN b : b[i] = 1 THEN <<1>> \o Zeros(Len(b))
    ELSE LET j == CHOOSE i \in DOMAIN b :
                      b[i] = 0 /\ \A k \in (i + 1)..Len(b) : b[k] = 1
         IN  [i \in DOMAIN b |-> IF i < j THEN b[i] ELSE IF i = j THEN 1 ELSE 0]

\* the double nearest to bits * 2^e (+ a non-zero rest below the last bit
\* when sticky), ties to even
RoundToDouble(bits0, e, sticky) ==
    LET bits == Strip(bits0)
        n == Len(bits)
    IN  IF n = 0 THEN Zero
        ELSE IF n <= Precision
        THEN [sig |-> bits \o Zeros(Precision - n), exp |-> e - (Precision - n)]
        ELSE LET kept == SubSeq(bits, 1, Precision)
                 guard == bits[Precision + 1]
                 st == sticky \/ \E i \in (Precision + 2)..n : bits[i] = 1
                 up == guard = 1 /\ (st \/ kept[Precision] = 1)
                 r == IF up THEN IncBits(kept) ELSE kept
                 ex == e + (n - Precision)
             IN  IF Len(r) > Precision
                 THEN [sig |-> SubSeq(r, 1, Precision), exp |-> ex + 1]
                 ELSE [sig |-> r, exp |-> ex]

\* a natural number as a double
Number(n) == RoundToDouble(IntBits(n), 0, FALSE)

\* The arithmetic works on digits of 8 bits (base 256), first the most
\* significant.
BitsOfDigit(d) ==
    <<(d \div 128) % 2, (d \div 64) % 2, (d \div 32) % 2, (d \div 16) % 2,
      (d \div 8) % 2, (d \div 4) % 2, (d \div 2) % 2, d % 2>>

DigitsToBits(ds) ==
    [j \in 1..(8 * Len(ds)) |-> BitsOfDigit(ds[((j - 1) \div 8) + 1])[((j - 1) % 8) + 1]]

BitsToDigits(bits) ==
    LET b == Zeros((8 - (Len(bits) % 8)) % 8) \o bits
    IN  [k \in 1..(Len(b) \div 8) |->
           128 * b[8 * k - 7] + 64 * b[8 * k - 6] + 32 * b[8 * k - 5]
           + 16 * b[8 * k - 4] + 8 * b[8 * k - 3] + 4 * b[8 * k - 2]
           + 2 * b[8 * k - 1] + b[8 * k]]

\* long division of digits by d
RECURSIVE LongDiv(_, _, _, _)
LongDiv(digits, d, rem, quot) ==
    IF digits = <<>> THEN [quot |-> quot, rem |-> rem]
    ELSE LET r == 256 * rem + Head(digits)
         IN  LongDiv(Tail(digits), d, r % d, Append(quot, r \div d))

\* a / b of JavaScript for natural numbers a and b > 0: the quotient is
\* taken to m digits below the point, enough for two bits more than the
\* significand, and rounded
Divide(a, b) ==
    LET m == (Precision + 2 + Len(IntBits(b)) + 7) \div 8
        q == LongDiv(BitsToDigits(IntBits(a)) \o Zeros(m), b, 0, <<>>)
    IN  RoundToDouble(DigitsToBits(q.quot), 0 - 8 * m, q.rem # 0)

\* digits times a natural number
RECURSIVE TimesDigits(_, _, _, _)
TimesDigits(digits, n, carry, out) ==
    IF digits = <<>> THEN BitsToDigits(IntBits(carry)) \o out
    ELSE LET t == digits[Len(digits)] * n + carry
         IN  TimesDigits(SubSeq(digits, 1, Len(digits) - 1), n, t \div 256,
                         <<t % 256>> \o out)

\* n * x of JavaScript for a natural number n and a double x
Times(n, x) ==
    RoundToDouble(DigitsToBits(TimesDigits(BitsToDigits(x.sig), n, 0, <<>>)),
                  x.exp, FALSE)

\* the <img> elements getCroppedImg may be given: the natural size and the
\* displayed size, which is the natural size scaled down (or kept) with its
\* aspect ratio, in whole pixels
Images ==
    {im \in [naturalWidth : 1..MaxNaturalSize, naturalHeight : 1..MaxNaturalSize,
             width : 1..MaxDisplayedSize, height : 1..MaxDisplayedSize] :
        /\ im.width <= im.naturalWidth
        /\ im.height <= im.naturalHeight
        /\ im.height * im.naturalWidth - im.naturalHeight * im.width < im.naturalWidth
        /\ im.naturalHeight * im.width - im.height * im.naturalWidth < im.naturalWidth}

\* the crop that covers the whole displayed image
FullCrop(image) ==
    [unit |-> "px", x |-> 0, y |-> 0, width |-> image.width, height |-> image.height]

\* the completed crops of an image: the whole of it, and the region left
\* by an inset of one pixel at the top and the left
CropsOf(image) ==
    {FullCrop(image)} \cup
    (IF image.width > 1 /\ image.height > 1
     THEN {[unit |-> "px", x |-> 1, y |-> 1,
            width |-> image.width - 1, height |-> image.height - 1]}
     ELSE {})

\* getCroppedImg up to the drawImage call: the canvas it creates and the
\* arguments of ctx.drawImage.  The crop has whole pixel values.
getCroppedImg(image, c) ==
    LET scaleX == Divide(image.naturalWidth, image.width)
        scaleY == Divide(image.naturalHeight, image.height)
    IN  [kind |-> "drawImage",
         canvas |-> [width |-> c.width, height |-> c.height],
         sx |-> Times(c.x, scaleX),
         sy |-> Times(c.y, scaleY),
         sw |-> Times(c.width, scaleX),
         sh |-> Times(c.height, scaleY),
         dx |-> 0, dy |-> 0, dw |-> c.width, dh |-> c.height]

\* a call getCroppedImg(image, c) is about to run
CropInit ==
    /\ imgSrc = ""
    /\ croppedImageUrl = ""
    /\ crop = undefined
    /\ completedCrop = undefined
    /\ name = ""
    /\ isCropping = FALSE
    /\ isDownloading = FALSE
    /\ imgLoading = FALSE
    /\ readers = [f \in Files |-> 0]
    /\ \E image \in Images : \E c \in CropsOf(image) :
          cropTasks = <<[image |-> image, crop |-> c]>>
    /\ exports = <<>>
    /\ containers = 0
    /\ effects = {}

\* canvas.getContext('2d') returns null: throw new Error('No 2d context')
CropNoContext ==
    /\ effects = {}
    /\ effects' = {[kind |-> "throw", text |-> "No 2d context"]}
    /\ UNCHANGED <<uiVars, imgLoading, readers, cropTasks, exports, containers>>

\* the canvas is created and the region is drawn on it
CropDraw ==
    /\ effects = {}
    /\ effects' = {getCroppedImg(cropTasks[1].image, cropTasks[1].crop)}
    /\ UNCHANGED <<uiVars, imgLoading, readers, cropTasks, exports, containers>>

CropNext == CropNoContext \/ CropDraw

CropSpec == CropInit /\ [][CropNext]_vars

\* C16: getCroppedImg makes a canvas of exactly the width and height of
\* the crop, and for the crop that covers the whole displayed image it
\* samples the source from (0, 0) with extent exactly (naturalWidth,
\* naturalHeight).
C16_ExactSampling ==
    \A fx \in effects :
       fx.kind = "drawImage" =>
          LET image == cropTasks[1].image
              c == cropTasks[1].crop
          IN  /\ fx.canvas = [width |-> c.width, height |-> c.height]
              /\ c = FullCrop(image) =>
                    /\ fx.sx = Zero
                    /\ fx.sy = Zero
                    /\ fx.sw = Number(image.naturalWidth)
                    /\ fx.sh = Number(image.naturalHeight)

====
